---- MODULE Spec2Model ----
(***************************************************************************)
(* DashCash pinless ATM simulator (src/simulator.py).                      *)
(*                                                                         *)
(* The state is the SQLite table `users`, the directory `enrolled_faces`,  *)
(* the scratch directory `temp_clean_db`, and, for each caller (one        *)
(* Streamlit session, run in its own script thread), the session state,    *)
(* the position inside the handler it is executing and that handler's      *)
(* locals; `ret` is the value returned by the step just taken, if it was a *)
(* return.  Every statement of a handler that                              *)
(* reads or writes a shared store (a SELECT, an INSERT/UPDATE+commit, a    *)
(* file save, a listdir, a copy, a remove) is one atomic step; purely      *)
(* local computation is folded into the step that precedes it.             *)
(*                                                                         *)
(* Money is counted in whole units (the code keeps a REAL).  An image is   *)
(* a number: BadImage are bytes PIL cannot decode, NoFace is a picture in  *)
(* which the detector finds no face, 1..MaxFace are faces, and the         *)
(* distance between two faces is the distance DeepFace computes.           *)
(***************************************************************************)
EXTENDS Integers, FiniteSets, Sequences, TLC

\* ---------------------------------------------------------------- bounds
MaxBalance == 3
MaxAmount == 2
MaxDeposit == 1
MaxFace == 2

\* ------------------------------------------------------------- constants
Callers == {"s1", "s2"}
AccountNos == {"1001", "1002", "temp_auth_file"}
\* the account numbers typed in where every interleaving of the callers is explored
SharedAccountNos == {"1001", "temp_auth_file"}
\* the account numbers typed in where the requests come one at a time
SeqAccountNos == {"1001", "1002"}
Names == {"Ann"}

ENROLLMENT_DIR == "enrolled_faces"
TEMP_DB_DIR == "temp_clean_db"

BadImage == -1
NoFace == 0
Faces == 1..MaxFace
Images == {NoFace} \cup Faces
ImageBytes == {BadImage} \cup Images

\* f"{account_no}.jpg"
FileName(account_no) == account_no \o ".jpg"
\* os.path.join(dir, file_name)
PathJoin(dir, file_name) == dir \o "/" \o file_name
\* os.path.basename(PROBE_FILE), PROBE_FILE = ENROLLMENT_DIR/temp_auth_file.jpg
PROBE_NAME == "temp_auth_file.jpg"
PROBE_FILE == PathJoin(ENROLLMENT_DIR, PROBE_NAME)

FileNames == {FileName(k) : k \in AccountNos} \cup {PROBE_NAME}
\* os.path.basename of a path DeepFace.find returns
Basename(path) ==
    CHOOSE f \in FileNames : \E d \in {ENROLLMENT_DIR, TEMP_DB_DIR} : path = PathJoin(d, f)

TransactionTypes == {"Withdrawal", "Deposit"}

\* ----------------------------------------------------------------- state
VARIABLES
    users,           \* the users table: account_no -> row, for the rows that exist
    enrolled_faces,  \* ENROLLMENT_DIR: file name -> image, for the files that exist
    temp_kind,       \* TEMP_DB_DIR is "none" (absent), a "dir" or a plain "file"
    temp_files,      \* the files of TEMP_DB_DIR when it is a directory
    session,         \* st.session_state of each caller
    pc,              \* where each caller is
    local,           \* the arguments and locals of the handler a caller runs
    ret              \* what the step just taken returned, and to whom (NoRet: nothing)

vars == <<users, enrolled_faces, temp_kind, temp_files, session, pc, local, ret>>
stores == <<users, enrolled_faces, temp_kind, temp_files>>

Put(f, k, v) == [x \in (DOMAIN f) \cup {k} |-> IF x = k THEN v ELSE f[x]]
Del(f, k) == [x \in (DOMAIN f) \ {k} |-> f[x]]
Empty == [x \in {} |-> 0]

\* An argument is drawn in the step that first uses it (image_bytes at the save,
\* name and initial_deposit at the INSERT): until then no other caller can see it.
NoLocal == [account_no |-> "", kind |-> "", amount |-> 0, balance |-> 0,
            files |-> {}, msg |-> ""]
NoRet == [caller |-> "", op |-> "none", ok |-> FALSE, msg |-> "", account_no |-> "",
          amount |-> 0, balance |-> 0]
LoggedOut == [logged_in |-> FALSE, user_account |-> <<>>]

\* CREATE TABLE users (account_no PRIMARY KEY, name, balance, enrolled_face_path UNIQUE)
Row(account_no, name, balance, path) ==
    [account_no |-> account_no, name |-> name, balance |-> balance,
     enrolled_face_path |-> path]

\* init_db on an empty installation, every session new
Init ==
    /\ users = Empty
    /\ enrolled_faces = Empty
    /\ temp_kind = "none"
    /\ temp_files = Empty
    /\ session = [c \in Callers |-> LoggedOut]
    /\ pc = [c \in Callers |-> "idle"]
    /\ local = [c \in Callers |-> NoLocal]
    /\ ret = NoRet

\* the handler returns r to c (with r.msg = "raised", an exception leaves it)
Return(c, r) ==
    /\ pc' = [pc EXCEPT ![c] = "idle"]
    /\ local' = [local EXCEPT ![c] = NoLocal]
    /\ ret' = [r EXCEPT !.caller = c]

Goto(c, label, l) ==
    /\ pc' = [pc EXCEPT ![c] = label]
    /\ local' = [local EXCEPT ![c] = l]
    /\ ret' = NoRet

\* ------------------------------------------------------------ enroll_user
EnrollRet(account_no, ok, msg) ==
    [NoRet EXCEPT !.op = "enroll", !.ok = ok, !.msg = msg, !.account_no = account_no]

\* the existence check with a slip: it never finds the row
AccountExistsNever(account_no) == FALSE

\* SELECT account_no FROM users WHERE account_no=? ... c.fetchone()
AccountExists(account_no) == account_no \in DOMAIN users

\* the call, and the check that the account number is new
EnrollCheck(c, account_no) ==
    /\ pc[c] = "idle"
    /\ IF AccountExists(account_no)
       THEN Return(c, EnrollRet(account_no, FALSE, "Error: Account number already exists."))
       ELSE Goto(c, "enroll_save", [NoLocal EXCEPT !.account_no = account_no])
    /\ UNCHANGED <<stores, session>>

\* Image.open(io.BytesIO(image_bytes)); image.save(file_path)
EnrollSave(c) ==
    /\ pc[c] = "enroll_save"
    /\ \E image_bytes \in ImageBytes :
         LET l == local[c]
         IN  IF image_bytes = BadImage
             THEN /\ Return(c, EnrollRet(l.account_no, FALSE, "Error saving image file"))
                  /\ UNCHANGED enrolled_faces
             ELSE /\ enrolled_faces' = Put(enrolled_faces, FileName(l.account_no), image_bytes)
                  /\ Goto(c, "enroll_detect", l)
    /\ UNCHANGED <<users, temp_kind, temp_files, session>>

\* DeepFace.extract_faces(img_path, enforce_detection=True) finds a face in the
\* file as it is now; a missing file or a picture without a face is a ValueError
FaceDetected(dir, file_name) ==
    /\ file_name \in DOMAIN dir
    /\ dir[file_name] \in Faces

\* the face check on the saved file; provider_ok = FALSE is any other DeepFace error
EnrollDetect(c) ==
    /\ pc[c] = "enroll_detect"
    /\ \E provider_ok \in BOOLEAN :
         LET l == local[c]
         IN  IF ~FaceDetected(enrolled_faces, FileName(l.account_no))
             THEN Goto(c, "enroll_cleanup",
                       [l EXCEPT !.msg = "Error: No clear face detected in the image. Enrollment failed."])
             ELSE IF ~provider_ok
             THEN Goto(c, "enroll_cleanup", [l EXCEPT !.msg = "DeepFace processing error"])
             ELSE Goto(c, "enroll_insert", l)
    /\ UNCHANGED <<stores, session>>

\* the INSERT with a slip: no constraint refuses it, the new row replaces the old
InsertAllowedAlways(row) == TRUE

\* the INSERT succeeds when neither the PRIMARY KEY nor the UNIQUE path is taken
InsertAllowed(row) ==
    /\ row.account_no \notin DOMAIN users
    /\ \A k \in DOMAIN users : users[k].enrolled_face_path # row.enrolled_face_path

\* INSERT INTO users ...; conn.commit(); storage_ok = FALSE is any other
\* sqlite3 error
EnrollInsert(c) ==
    /\ pc[c] = "enroll_insert"
    /\ \E storage_ok \in BOOLEAN, name \in Names, initial_deposit \in 0..MaxDeposit :
         LET l == local[c]
             row == Row(l.account_no, name, initial_deposit,
                        PathJoin(ENROLLMENT_DIR, FileName(l.account_no)))
         IN  IF storage_ok /\ InsertAllowed(row)
             THEN /\ users' = Put(users, l.account_no, row)
                  /\ Return(c, EnrollRet(l.account_no, TRUE,
                                         "User successfully enrolled and account created!"))
             ELSE /\ Goto(c, "enroll_cleanup", [l EXCEPT !.msg = "Database insertion error"])
                  /\ UNCHANGED users
    /\ UNCHANGED <<enrolled_faces, temp_kind, temp_files, session>>

\* os.remove(file_path) in the three except branches, then the error return;
\* os.remove of a file that is gone raises FileNotFoundError out of enroll_user
EnrollCleanup(c) ==
    /\ pc[c] = "enroll_cleanup"
    /\ LET l == local[c]
           f == FileName(l.account_no)
       IN  IF f \in DOMAIN enrolled_faces
           THEN /\ enrolled_faces' = Del(enrolled_faces, f)
                /\ Return(c, EnrollRet(l.account_no, FALSE, l.msg))
           ELSE /\ UNCHANGED enrolled_faces
                /\ Return(c, EnrollRet(l.account_no, FALSE, "raised"))
    /\ UNCHANGED <<users, temp_kind, temp_files, session>>

\* show_enrollment_view: the form submits one enrollment, its account number one
\* of account_nos
Enroll(c, account_nos) == \E account_no \in account_nos : EnrollCheck(c, account_no)

\* --------------------------------------------------------- update_balance
TxnRet(l, ok, msg, balance) ==
    [NoRet EXCEPT !.op = l.kind, !.ok = ok, !.msg = msg, !.account_no = l.account_no,
                  !.amount = l.amount, !.balance = balance]

\* the funds check with a slip: off by one, refusing the whole balance, absent
InsufficientOffByOne(current_balance, amount) == current_balance + 1 < amount
InsufficientOrEqual(current_balance, amount) == current_balance <= amount
InsufficientNever(current_balance, amount) == FALSE

\* if current_balance < amount: "Insufficient funds."
Insufficient(current_balance, amount) == current_balance < amount

\* new_balance = current_balance -/+ amount
NewBalance(transaction_type, current_balance, amount) ==
    IF transaction_type = "Withdrawal" THEN current_balance - amount
    ELSE current_balance + amount

\* the call, SELECT balance ... c.fetchone()[0] (a TypeError when there is no
\* row), the funds check and the computation of new_balance
UpdateBalanceRead(c, account_no, amount, transaction_type) ==
    /\ pc[c] = "idle"
    /\ LET l == [NoLocal EXCEPT !.account_no = account_no, !.kind = transaction_type,
                                !.amount = amount]
       IN  IF ~AccountExists(account_no)
           THEN Return(c, TxnRet(l, FALSE, "raised", 0))
           ELSE LET current_balance == users[account_no].balance
                IN  IF transaction_type = "Withdrawal"
                       /\ Insufficient(current_balance, amount)
                    THEN Return(c, TxnRet(l, FALSE, "Insufficient funds.", 0))
                    ELSE /\ NewBalance(transaction_type, current_balance, amount) <= MaxBalance
                         /\ NewBalance(transaction_type, current_balance, amount) >= -MaxBalance
                         /\ Goto(c, "txn_write", [l EXCEPT !.balance = current_balance])
    /\ UNCHANGED <<stores, session>>

\* the session's record with a slip: the cached balance is not refreshed
CachedAfterStale(user_account, new_balance) == user_account

\* st.session_state.user_account['balance'] = new_balance
CachedAfter(user_account, new_balance) == [user_account EXCEPT !.balance = new_balance]

\* UPDATE users SET balance=? WHERE account_no=?; commit; the session's cached
\* balance is refreshed and the new balance reported
UpdateBalanceWrite(c) ==
    /\ pc[c] = "txn_write"
    /\ LET l == local[c]
           new_balance == NewBalance(l.kind, l.balance, l.amount)
       IN  /\ users' = IF l.account_no \in DOMAIN users
                       THEN [users EXCEPT ![l.account_no].balance = new_balance]
                       ELSE users
           /\ session' = [session EXCEPT ![c].user_account =
                            <<CachedAfter(session[c].user_account[1], new_balance)>>]
           /\ Return(c, TxnRet(l, TRUE, "successful", new_balance))
    /\ UNCHANGED <<enrolled_faces, temp_kind, temp_files>>

\* show_transaction_view: "Complete Withdrawal" / "Complete Deposit" on the
\* account the session holds, amount from st.number_input(min_value=1.00)
Transaction(c) ==
    /\ session[c].logged_in
    /\ \E transaction_type \in TransactionTypes, amount \in 1..MaxAmount :
         UpdateBalanceRead(c, session[c].user_account[1].account_no, amount,
                           transaction_type)

\* show_transaction_view: "Confirm Log Out"
LogOut(c) ==
    /\ pc[c] = "idle"
    /\ session[c].logged_in
    /\ session' = [session EXCEPT ![c] = LoggedOut]
    /\ Return(c, [NoRet EXCEPT !.op = "logout", !.ok = TRUE])
    /\ UNCHANGED stores

\* -------------------------------------------------------- show_login_view
LoginRet(l) ==
    [NoRet EXCEPT !.op = "login", !.ok = (l.msg = "ok"), !.msg = l.msg,
                  !.account_no = l.account_no]

\* image.save(PROBE_FILE): the captured picture goes into ENROLLMENT_DIR
LoginSaveProbe(c) ==
    /\ pc[c] = "idle"
    /\ ~session[c].logged_in
    /\ \E captured_image \in Images :
         enrolled_faces' = Put(enrolled_faces, PROBE_NAME, captured_image)
    /\ Goto(c, "login_listdir", NoLocal)
    /\ UNCHANGED <<users, temp_kind, temp_files, session>>

\* os.makedirs(TEMP_DB_DIR, exist_ok=True) (FileExistsError when it is a plain
\* file) and enrolled_files = os.listdir(ENROLLMENT_DIR) without the probe's name
LoginListdir(c) ==
    /\ pc[c] = "login_listdir"
    /\ IF temp_kind = "file"
       THEN /\ Return(c, LoginRet([NoLocal EXCEPT !.msg = "raised"]))
            /\ UNCHANGED temp_kind
       ELSE /\ temp_kind' = "dir"
            /\ LET enrolled_files == (DOMAIN enrolled_faces) \ {PROBE_NAME}
               IN  Goto(c, IF enrolled_files = {} THEN "login_find" ELSE "login_copy",
                        [NoLocal EXCEPT !.files = enrolled_files])
    /\ UNCHANGED <<users, enrolled_faces, temp_files, session>>

\* shutil.copy(os.path.join(ENROLLMENT_DIR, file_name), TEMP_DB_DIR) for the next
\* listed file: FileNotFoundError when the file is gone (raised outside the try,
\* so nothing is cleaned up); when TEMP_DB_DIR is no directory the copy creates or
\* overwrites a plain file of that name
LoginCopy(c) ==
    /\ pc[c] = "login_copy"
    /\ \E file_name \in local[c].files :
         LET rest == local[c].files \ {file_name}
         IN  IF file_name \notin DOMAIN enrolled_faces
             THEN /\ Return(c, LoginRet([NoLocal EXCEPT !.msg = "raised"]))
                  /\ UNCHANGED <<temp_kind, temp_files>>
             ELSE /\ IF temp_kind = "dir"
                     THEN /\ temp_files' = Put(temp_files, file_name, enrolled_faces[file_name])
                          /\ UNCHANGED temp_kind
                     ELSE /\ temp_kind' = "file"
                          /\ UNCHANGED temp_files
                  /\ Goto(c, IF rest = {} THEN "login_find" ELSE "login_copy",
                          [local[c] EXCEPT !.files = rest])
    /\ UNCHANGED <<users, enrolled_faces, session>>

\* the distance DeepFace computes between two faces
Distance(p, q) == IF p > q THEN p - q ELSE q - p

\* the distance within which DeepFace.find reports an identity
Threshold == 1

\* the rows of the data frame DeepFace.find returns: the images of db that show a
\* face within the threshold of the probe
Candidates(probe, db) ==
    {f \in DOMAIN db : db[f] \in Faces /\ Distance(probe, db[f]) <= Threshold}

\* results[0]['identity'].iloc[0]: a row of least distance
TopRows(probe, db) ==
    {f \in Candidates(probe, db) :
        \A g \in Candidates(probe, db) : Distance(probe, db[f]) <= Distance(probe, db[g])}

\* the lookup with a slip: no WHERE clause, any row is taken
RowsByPathAny(path) == DOMAIN users

\* SELECT * FROM users WHERE enrolled_face_path=?
RowsByPath(path) == {k \in DOMAIN users : users[k].enrolled_face_path = path}

\* what DeepFace.find raises on: no probe file or no face in it, db_path not a
\* directory; and, in the releases that do (strict), a db image without a face or
\* an empty db
FindRaises(strict) ==
    \/ temp_kind # "dir"
    \/ ~FaceDetected(enrolled_faces, PROBE_NAME)
    \/ strict /\ (temp_files = Empty \/ \E f \in DOMAIN temp_files : temp_files[f] \notin Faces)

\* DeepFace.find, the lookup of the best match's row and the session update
LoginFind(c) ==
    /\ pc[c] = "login_find"
    /\ \E strict \in BOOLEAN :
         IF FindRaises(strict)
         THEN /\ Goto(c, "login_cleanup", [NoLocal EXCEPT !.msg = "error"])
              /\ UNCHANGED session
         ELSE LET probe == enrolled_faces[PROBE_NAME]
              IN  IF Candidates(probe, temp_files) = {}
                  THEN /\ Goto(c, "login_cleanup", [NoLocal EXCEPT !.msg = "failed"])
                       /\ UNCHANGED session
                  ELSE \E best \in TopRows(probe, temp_files) :
                         LET match_filename == Basename(PathJoin(TEMP_DB_DIR, best))
                             best_match_path == PathJoin(ENROLLMENT_DIR, match_filename)
                             found == RowsByPath(best_match_path)
                         IN  IF found = {}
                             THEN /\ Goto(c, "login_cleanup", [NoLocal EXCEPT !.msg = "failed"])
                                  /\ UNCHANGED session
                             ELSE \E k \in found :
                                    /\ session' = [session EXCEPT ![c] =
                                         [logged_in |-> TRUE,
                                          user_account |-> <<[account_no |-> users[k].account_no,
                                                              name |-> users[k].name,
                                                              balance |-> users[k].balance,
                                                              path |-> users[k].enrolled_face_path]>>]]
                                    /\ Goto(c, "login_cleanup",
                                            [NoLocal EXCEPT !.msg = "ok", !.account_no = k])
    /\ UNCHANGED stores

\* finally: os.remove(PROBE_FILE) if it exists, shutil.rmtree(TEMP_DB_DIR) if it
\* exists (NotADirectoryError when it is a plain file); each exists-then-remove
\* pair is taken as one step
LoginCleanup(c) ==
    /\ pc[c] = "login_cleanup"
    /\ enrolled_faces' = Del(enrolled_faces, PROBE_NAME)
    /\ IF temp_kind = "file"
       THEN /\ Return(c, LoginRet([local[c] EXCEPT !.msg = "raised"]))
            /\ UNCHANGED <<temp_kind, temp_files>>
       ELSE /\ temp_kind' = "none"
            /\ temp_files' = Empty
            /\ Return(c, LoginRet(local[c]))
    /\ UNCHANGED <<users, session>>

\* a step of caller c's login attempt
LoginStep(c) ==
    \/ LoginSaveProbe(c)
    \/ LoginListdir(c)
    \/ LoginCopy(c)
    \/ LoginFind(c)
    \/ LoginCleanup(c)

\* a step of caller c's enrollment after the existence check
EnrollBodyStep(c) ==
    \/ EnrollSave(c)
    \/ EnrollDetect(c)
    \/ EnrollInsert(c)
    \/ EnrollCleanup(c)

\* the gap between two candidates' scores within which the best match is not
\* accepted (the resolver's ambiguity margin; the code has none)
AmbiguityMargin == 1

\* the best candidate has a runner-up, both within the threshold, and their
\* distances to the probe differ by no more than the margin
Ambiguous(probe, db) ==
    \E f \in TopRows(probe, db) : \E g \in Candidates(probe, db) \ {f} :
        Distance(probe, db[g]) - Distance(probe, db[f]) <= AmbiguityMargin

\* ------------------------------------------------------------------ main
\* main: one script run of caller c's session; the sidebar offers enrollment in
\* every state, the login view while logged out, the transaction view while
\* logged in
Step(c, account_nos) ==
    \/ Enroll(c, account_nos)
    \/ EnrollSave(c)
    \/ EnrollDetect(c)
    \/ EnrollInsert(c)
    \/ EnrollCleanup(c)
    \/ LoginSaveProbe(c)
    \/ LoginListdir(c)
    \/ LoginCopy(c)
    \/ LoginFind(c)
    \/ LoginCleanup(c)
    \/ Transaction(c)
    \/ UpdateBalanceWrite(c)
    \/ LogOut(c)

\* callers run concurrently: any caller takes the next step of its handler
Next == \E c \in Callers : Step(c, SharedAccountNos)
Spec == Init /\ [][Next]_vars

\* one request at a time: a caller steps only while no other caller is inside a
\* handler
Alone(c) == \A d \in Callers \ {c} : pc[d] = "idle"
SeqNext ==
    \E c \in Callers :
        \/ Alone(c) /\ Enroll(c, SeqAccountNos)
        \/ EnrollSave(c)
        \/ EnrollDetect(c)
        \/ EnrollInsert(c)
        \/ EnrollCleanup(c)
        \/ Alone(c) /\ LoginSaveProbe(c)
        \/ LoginListdir(c)
        \/ LoginCopy(c)
        \/ LoginFind(c)
        \/ LoginCleanup(c)
        \/ Alone(c) /\ Transaction(c)
        \/ UpdateBalanceWrite(c)
        \/ Alone(c) /\ LogOut(c)
SeqSpec == Init /\ [][SeqNext]_vars

\* update_balance called with arguments of the caller's choosing (any account
\* number, any amount) rather than through the widgets of show_transaction_view;
\* the session holds an account, as line 139 needs
UpdateBalanceCall(c) ==
    /\ session[c].logged_in
    /\ \E account_no \in SeqAccountNos, transaction_type \in TransactionTypes,
          amount \in (-MaxAmount)..MaxAmount :
         UpdateBalanceRead(c, account_no, amount, transaction_type)

\* the one key enrolled where update_balance is called directly
ApiAccountNos == {"1001"}

\* one request at a time, with update_balance open to direct calls
ApiNext ==
    \E c \in Callers :
        \/ Alone(c) /\ Enroll(c, ApiAccountNos)
        \/ EnrollSave(c)
        \/ EnrollDetect(c)
        \/ EnrollInsert(c)
        \/ EnrollCleanup(c)
        \/ Alone(c) /\ LoginSaveProbe(c)
        \/ LoginListdir(c)
        \/ LoginCopy(c)
        \/ LoginFind(c)
        \/ LoginCleanup(c)
        \/ Alone(c) /\ UpdateBalanceCall(c)
        \/ UpdateBalanceWrite(c)
        \/ Alone(c) /\ LogOut(c)
ApiSpec == Init /\ [][ApiNext]_vars

\* ------------------------------------------------------------- properties
SessionAccount(c) == session[c].user_account[1]

\* caller c is past the funds check of a withdrawal of local[c].amount that read
\* local[c].balance: the UPDATE and the success return are all that is left
WithdrawalGranted(c) == pc[c] = "txn_write" /\ local[c].kind = "Withdrawal"

\* C1: of two withdrawals a and b issued concurrently against the same account
\* with balance B, a <= B, b <= B and a + b > B, exactly one succeeds: never are
\* both past the funds check, each about to commit and report success.
C1_ExactlyOneWithdrawalSucceeds ==
    \A c1 \in Callers : \A c2 \in Callers \ {c1} :
        ~ /\ WithdrawalGranted(c1)
          /\ WithdrawalGranted(c2)
          /\ local[c1].account_no = local[c2].account_no
          /\ local[c1].balance = local[c2].balance
          /\ local[c1].amount <= local[c1].balance
          /\ local[c2].amount <= local[c2].balance
          /\ local[c1].amount + local[c2].amount > local[c1].balance

\* C2: in every reachable state the stored balance of every account is >= 0.
C2_BalanceNonNegative == \A k \in DOMAIN users : users[k].balance >= 0

\* a withdrawal of the whole balance has just returned, concurrently or not
C2_Witness ==
    /\ ret.op = "Withdrawal"
    /\ ret.ok
    /\ users[ret.account_no].balance = 0

\* C3: a withdrawal whose amount is strictly greater than the balance the account
\* holds when update_balance reads it returns "Insufficient funds." and changes
\* neither the users table nor the session's cached balance.
C3_InsufficientFundsNoEffect ==
    [][\A c \in Callers : \A amount \in 1..MaxAmount : \A k \in DOMAIN users :
          (/\ amount > users[k].balance
           /\ UpdateBalanceRead(c, k, amount, "Withdrawal"))
          => /\ ret'.caller = c
             /\ ~ret'.ok
             /\ ret'.msg = "Insufficient funds."
             /\ pc'[c] = "idle"
             /\ users' = users
             /\ session' = session]_vars

\* an over-large withdrawal has been refused on an account that holds money, and
\* the balance and the cached balance are what they were
C3_Witness ==
    /\ ret.op = "Withdrawal"
    /\ ~ret.ok
    /\ ret.msg = "Insufficient funds."
    /\ users[ret.account_no].balance > 0
    /\ ret.amount > users[ret.account_no].balance
    /\ SessionAccount(ret.caller).balance = users[ret.account_no].balance

\* C4: with the requests coming one at a time, on an account with balance B and
\* for an amount x > 0, a deposit goes through and commits B + x, a withdrawal goes
\* through if and only if x <= B and then commits B - x, and the balance reported
\* (and cached in the session) is the committed one.
C4_SequentialTransactions ==
    [][\A c \in Callers :
          /\ \A x \in 1..MaxAmount : \A k \in DOMAIN users :
                /\ UpdateBalanceRead(c, k, x, "Withdrawal")
                     => /\ (x <= users[k].balance) <=> (pc'[c] = "txn_write")
                        /\ (x > users[k].balance) <=>
                             (ret'.caller = c /\ ~ret'.ok /\ ret'.msg = "Insufficient funds.")
                /\ UpdateBalanceRead(c, k, x, "Deposit") => pc'[c] = "txn_write"
          /\ UpdateBalanceWrite(c)
               => LET k == local[c].account_no
                      B == users[k].balance
                      x == local[c].amount
                  IN  /\ users'[k].balance = IF local[c].kind = "Deposit" THEN B + x ELSE B - x
                      /\ ret'.caller = c
                      /\ ret'.ok
                      /\ ret'.balance = users'[k].balance
                      /\ session'[c].user_account[1].balance = users'[k].balance
                      /\ \A j \in DOMAIN users \ {k} : users'[j] = users[j]]_vars

\* the whole balance has just been withdrawn: it succeeded and left 0
C4_Witness ==
    /\ ret.op = "Withdrawal"
    /\ ret.ok
    /\ ret.amount > 0
    /\ ret.balance = 0
    /\ users[ret.account_no].balance = 0
    /\ \A c \in Callers : pc[c] = "idle"

DuplicateMsg == "Error: Account number already exists."
SaveErrorMsg == "Error saving image file"
TemplatePath(k) == PathJoin(ENROLLMENT_DIR, FileName(k))

\* C5: immediately after enroll_user returns success for key K, the users table
\* has the account K, ENROLLMENT_DIR has K's file, showing a face, and the
\* account's enrolled_face_path is that file.
C5_EnrolledAccountHasTemplate ==
    (ret.op = "enroll" /\ ret.ok)
    => /\ ret.account_no \in DOMAIN users
       /\ users[ret.account_no].account_no = ret.account_no
       /\ users[ret.account_no].enrolled_face_path = TemplatePath(ret.account_no)
       /\ FaceDetected(enrolled_faces, FileName(ret.account_no))

\* C6: when an enrollment of a key K that passed the existence check has failed
\* after its image was saved (no face detected, another DeepFace error, the
\* INSERT failing) and has returned or raised, neither an account row nor a
\* template file for K exists. Stated for the states in which no other handler is
\* in flight, so that what is found is not the intermediate state of somebody
\* else's enrollment.
C6_FailedEnrollmentLeavesNoTrace ==
    (/\ ret.op = "enroll"
     /\ ~ret.ok
     /\ ret.msg \notin {DuplicateMsg, SaveErrorMsg}
     /\ \A c \in Callers : pc[c] = "idle")
    => /\ ret.account_no \notin DOMAIN users
       /\ FileName(ret.account_no) \notin DOMAIN enrolled_faces

\* C7: an enrollment attempt whose key already has an account row fails with the
\* duplicate error, and leaves the users table and ENROLLMENT_DIR (the existing
\* row and its template) as they were.
C7_DuplicateEnrollmentRejected ==
    [][\A c \in Callers : \A k \in DOMAIN users :
          EnrollCheck(c, k)
          => /\ ret'.caller = c
             /\ ret'.op = "enroll"
             /\ ~ret'.ok
             /\ ret'.msg = DuplicateMsg
             /\ pc'[c] = "idle"
             /\ users' = users
             /\ enrolled_faces' = enrolled_faces]_vars

\* an enrollment of an enrolled key has just been refused; the row and its
\* template are there
C7_Witness ==
    /\ ret.op = "enroll"
    /\ ret.msg = DuplicateMsg
    /\ ret.account_no \in DOMAIN users
    /\ FaceDetected(enrolled_faces, FileName(ret.account_no))

\* C8: of concurrent enrollments of the same new key K at most one returns
\* success (the INSERT that succeeds finds no row for K), and once K's account
\* exists no step of another enrollment of K, its failure handling included,
\* overwrites or removes K's template.
C8_WinnerKeepsTemplate ==
    [][\A c \in Callers :
          /\ (EnrollInsert(c) /\ ret'.ok) => local[c].account_no \notin DOMAIN users
          /\ (EnrollBodyStep(c) /\ local[c].account_no \in DOMAIN users)
               => enrolled_faces' = enrolled_faces]_vars

\* C9: when the best candidate for the probe has a runner-up, both within the
\* threshold and no further apart than the ambiguity margin, the login attempt
\* fails: the session is not logged in and no account is selected.
C9_AmbiguousMatchFails ==
    [][\A c \in Callers :
          (/\ LoginFind(c)
           /\ temp_kind = "dir"
           /\ FaceDetected(enrolled_faces, PROBE_NAME)
           /\ Ambiguous(enrolled_faces[PROBE_NAME], temp_files))
          => /\ ~session'[c].logged_in
             /\ local'[c].msg # "ok"]_vars

\* C10: no step of a login attempt writes, overwrites or removes a file of
\* ENROLLMENT_DIR: the probe is never written into it and every enrolled
\* template stays as its enrollment left it.
C10_LoginReadOnly ==
    [][(\E c \in Callers : LoginStep(c)) => enrolled_faces' = enrolled_faces]_vars

\* C11: a login attempt made while no other caller is inside a handler starts
\* with no scratch directory in place, so the one it creates is fresh and empty,
\* and when a login attempt has returned, whatever its outcome, with no other
\* caller inside a handler, the probe file and the scratch directory are gone.
C11_LoginLeavesNoArtifact ==
    \A c \in Callers :
        Alone(c) =>
            /\ pc[c] = "login_listdir" => (temp_kind = "none" /\ temp_files = Empty)
            /\ (pc[c] = "idle" /\ ret.op = "login" /\ ret.caller = c)
                 => /\ PROBE_NAME \notin DOMAIN enrolled_faces
                    /\ temp_kind = "none"
                    /\ temp_files = Empty

\* C12: a call of update_balance on an existing account with an amount that is
\* zero or negative is rejected: it returns a failure that is an invalid-amount
\* result (no exception, not the insufficient-funds message), commits nothing and
\* leaves the users table as it was.
C12_NonPositiveAmountRejected ==
    [][\A c \in Callers : \A k \in DOMAIN users : \A amount \in (-MaxAmount)..0 :
       \A transaction_type \in TransactionTypes :
          UpdateBalanceRead(c, k, amount, transaction_type)
          => /\ ret'.caller = c
             /\ ~ret'.ok
             /\ ret'.msg \notin {"raised", "Insufficient funds."}
             /\ pc'[c] = "idle"
             /\ users' = users]_vars

\* C13: a call of update_balance with an account number that has no row returns
\* a failure as a value, not an exception, and leaves the users table and every
\* session as they were.
C13_UnknownAccountIsAResult ==
    [][\A c \in Callers : \A k \in AccountNos \ DOMAIN users :
       \A amount \in 1..MaxAmount : \A transaction_type \in TransactionTypes :
          UpdateBalanceRead(c, k, amount, transaction_type)
          => /\ ret'.caller = c
             /\ ~ret'.ok
             /\ ret'.msg # "raised"
             /\ pc'[c] = "idle"
             /\ users' = users
             /\ session' = session]_vars

\* C14: no update is lost under concurrent callers: every transaction that
\* reports success moves the stored balance of its account by exactly its amount
\* from what is stored when it commits, a deposit up and a withdrawal down, so
\* that the final balance is the initial one plus the successful deposits minus
\* the successful withdrawals.
C14_NoLostUpdate ==
    [][\A c \in Callers :
          (UpdateBalanceWrite(c) /\ local[c].account_no \in DOMAIN users)
          => /\ ret'.ok
             /\ users'[local[c].account_no].balance =
                  NewBalance(local[c].kind, users[local[c].account_no].balance,
                             local[c].amount)]_vars

\* C15: in every reachable state, the states in the middle of an enrollment
\* included, an account row exists for key K exactly when the template file of K
\* exists (the file name the login probe uses is left aside).
C15_AccountIffTemplate ==
    \A k \in AccountNos :
        FileName(k) # PROBE_NAME
        => (k \in DOMAIN users <=> FileName(k) \in DOMAIN enrolled_faces)

\* C16: a login attempt that runs while an enrollment is in flight collects as
\* candidates only templates whose enrollment has committed its account row, and
\* its copying of the candidates does not raise.
C16_CandidatesAreCommitted ==
    [][\A c \in Callers :
          /\ (LoginListdir(c) /\ pc'[c] # "idle")
             => \A file_name \in local'[c].files :
                   RowsByPath(PathJoin(ENROLLMENT_DIR, file_name)) # {}
          /\ LoginCopy(c) => ret'.msg # "raised"]_vars

\* caller c's login attempt has saved its probe and has not yet searched with it
ProbeInUse(c) == pc[c] \in {"login_listdir", "login_copy", "login_find"}

\* caller c's login attempt has made its scratch directory and has not yet
\* searched in it
ScratchInUse(c) == pc[c] \in {"login_copy", "login_find"}

\* C17: of two concurrent login attempts each is resolved from its own probe and
\* its own scratch workspace: while one attempt is still to search with the probe
\* it saved, no step of the other's attempt overwrites or removes that probe file
\* (so no caller is logged in on the other's probe), and no step of the other's
\* attempt, its cleanup included, removes the scratch directory or a file copied
\* into it.
C17_ConcurrentLoginsIsolated ==
    [][\A c \in Callers : \A d \in Callers \ {c} :
          LoginStep(d)
          => /\ (ProbeInUse(c) /\ PROBE_NAME \in DOMAIN enrolled_faces)
                => /\ PROBE_NAME \in DOMAIN enrolled_faces'
                   /\ enrolled_faces'[PROBE_NAME] = enrolled_faces[PROBE_NAME]
             /\ (ScratchInUse(c) /\ temp_kind = "dir")
                => /\ temp_kind' = "dir"
                   /\ \A f \in DOMAIN temp_files : f \in DOMAIN temp_files']_vars

\* C18: an account row, once created, is never deleted, and no step changes its
\* account number, its name or its template link; its balance changes only in
\* the commit of a successful deposit or withdrawal addressed to that account,
\* to the balance that transaction reports. Enrollments, logins, failed
\* transactions and transactions on other accounts leave it as it is.
C18_AccountFrame ==
    [][\A k \in DOMAIN users :
          /\ k \in DOMAIN users'
          /\ users'[k].account_no = users[k].account_no
          /\ users'[k].name = users[k].name
          /\ users'[k].enrolled_face_path = users[k].enrolled_face_path
          /\ users'[k].balance # users[k].balance
             => \E c \in Callers :
                   /\ UpdateBalanceWrite(c)
                   /\ local[c].account_no = k
                   /\ ret'.ok
                   /\ ret'.op \in TransactionTypes
                   /\ ret'.account_no = k
                   /\ users'[k].balance = ret'.balance]_vars

\* a successful deposit has just been committed to one of two existing accounts
C18_Witness ==
    /\ ret.ok
    /\ ret.op = "Deposit"
    /\ ret.account_no \in DOMAIN users
    /\ users[ret.account_no].balance = ret.balance
    /\ \E k \in DOMAIN users : k # ret.account_no

\* the balance session c shows is the balance stored for its account
InSync(c) ==
    session[c].logged_in
    => /\ SessionAccount(c).account_no \in DOMAIN users
       /\ SessionAccount(c).balance = users[SessionAccount(c).account_no].balance

\* the step just taken is the return of a transaction of caller c
TransactionReturned(c) == ret'.caller = c /\ ret'.op \in TransactionTypes

\* the step just taken is the commit of a transaction on account k by a session
\* other than c
OtherTransacts(c, k) ==
    \E d \in Callers \ {c} : TransactionReturned(d) /\ ret'.ok /\ ret'.account_no = k

\* C19: the balance cached in a logged-in session equals the stored balance of
\* its account after the login and after every transaction the session performs,
\* as long as no other session transacts on that account: a login leaves the two
\* equal, and from a state where they are equal every step other than another
\* session's commit on the account leaves them equal, a successful transaction
\* setting the cached balance to the committed one and a failed one leaving it.
C19_CachedBalanceInSync ==
    [][\A c \in Callers :
          /\ (InSync(c) /\ session'[c].logged_in
              /\ ~OtherTransacts(c, session'[c].user_account[1].account_no))
             => InSync(c)'
          /\ (TransactionReturned(c) /\ ret'.ok)
             => /\ session'[c].logged_in
                /\ SessionAccount(c)'.balance = ret'.balance
                /\ users'[ret'.account_no].balance = ret'.balance
          /\ (TransactionReturned(c) /\ ~ret'.ok)
             => session' = session]_vars

\* a session has just committed a transaction that changed what it shows, and
\* what it shows is what is stored
C19_Witness ==
    /\ ret.ok
    /\ ret.op \in TransactionTypes
    /\ ret.amount > 0
    /\ session[ret.caller].logged_in
    /\ SessionAccount(ret.caller).account_no = ret.account_no
    /\ SessionAccount(ret.caller).balance = ret.balance
    /\ users[ret.account_no].balance = ret.balance

\* C20: a session is logged in exactly when it holds an account record; it
\* becomes logged in only in the search step of its own login attempt, with the
\* record of an existing row whose template is the best match of the probe; it
\* becomes logged out only by its own confirmed log out; and a transaction is
\* under way or returns only for a logged-in session and on the account number
\* that session holds.
C20_SessionStateMachine ==
    [][\A c \in Callers :
          /\ session[c].logged_in <=> Len(session[c].user_account) = 1
          /\ session'[c].logged_in <=> Len(session'[c].user_account) = 1
          /\ (~session[c].logged_in /\ session'[c].logged_in)
             => /\ pc[c] = "login_find"
                /\ pc'[c] = "login_cleanup"
                /\ local'[c].msg = "ok"
                /\ SessionAccount(c)'.account_no \in DOMAIN users
                /\ SessionAccount(c)' =
                     [account_no |-> users[SessionAccount(c)'.account_no].account_no,
                      name |-> users[SessionAccount(c)'.account_no].name,
                      balance |-> users[SessionAccount(c)'.account_no].balance,
                      path |-> users[SessionAccount(c)'.account_no].enrolled_face_path]
                /\ PROBE_NAME \in DOMAIN enrolled_faces
                /\ \E best \in TopRows(enrolled_faces[PROBE_NAME], temp_files) :
                      SessionAccount(c)'.path = PathJoin(ENROLLMENT_DIR, best)
          /\ (session[c].logged_in /\ ~session'[c].logged_in)
             => (ret'.caller = c /\ ret'.op = "logout" /\ pc[c] = "idle")
          /\ pc'[c] = "txn_write"
             => /\ session'[c].logged_in
                /\ local'[c].account_no = SessionAccount(c)'.account_no
          /\ TransactionReturned(c)
             => /\ session[c].logged_in
                /\ ret'.account_no = SessionAccount(c).account_no]_vars

\* one session has just logged out after having been logged in, while the other
\* is logged in with a transaction on its own account under way
C20_Witness ==
    \E c \in Callers : \E d \in Callers \ {c} :
        /\ ret.op = "logout"
        /\ ret.caller = c
        /\ ~session[c].logged_in
        /\ session[d].logged_in
        /\ pc[d] = "txn_write"
        /\ local[d].account_no = SessionAccount(d).account_no
====
